---- MODULE Spec2Model ----
(***************************************************************************)
(* Model of the Yandex Wordstat MCP server (packages/yandex-wordstat-mcp): *)
(* the sliding-window rate limiter, the remote request wrapper, and the    *)
(* session cache of the regions tree, as run by Node's single-threaded     *)
(* event loop.  A "flow" is one asynchronous call chain started by a tool  *)
(* handler; a step of the model is one uninterrupted run of JavaScript     *)
(* between two suspension points (a timer or network I/O).                 *)
(***************************************************************************)
EXTENDS Integers, Sequences, FiniteSets, TLC

\* ---------------------------------------------------------------- bounds
NumFlows == 2      \* flows that may be in progress at the same time
MaxCalls == 12     \* wordstatRequest() calls started in one behaviour
MaxTicks == 2      \* the clock stops after this many ticks
TickMs   == 500    \* milliseconds by which one tick advances Date.now()
MaxDepth == 4      \* largest depth argument given to trimTreeToDepth
MaxLimit == 6      \* largest limit argument given to the regions handler

\* ------------------------------------------------------ program constants
RATE_LIMIT == 10
WindowMs   == 1000
TopByAffinityCount == 5


\* A nullable JavaScript value: Null, or Some(x) for a present x.
Null == <<>>
Some(x) == <<x>>

\* ------------------------------------------------------------ remote data
\* Nodes of the regions tree as the tree endpoint sends them: value is a
\* string-typed numeric id, children is absent (Null) or a list of nodes.
Leaf(v, l) == [value |-> v, label |-> l, children |-> Null]
Node(v, l, ch) == [value |-> v, label |-> l, children |-> Some(ch)]

TreeA == << Node("1", "Russia", << Node("2", "Center", << Leaf("3", "Moscow") >>),
                                   Leaf("4", "Siberia") >>) >>
TreeB == << Node("1", "Russia", << Leaf("2", "Center") >>), Leaf("5", "Belarus") >>
Trees == {TreeA, TreeB}

DataPayload == << [regionId |-> 2, count |-> 50], [regionId |-> 3, count |-> 5] >>

\* Number(node.value)
Number(s) == CASE s = "1" -> 1 [] s = "2" -> 2 [] s = "3" -> 3
               [] s = "4" -> 4 [] s = "5" -> 5 [] s = "6" -> 6
               [] s = "7" -> 7

\* Map.prototype.set
MapSet(m, k, v) == [x \in (DOMAIN m) \cup {k} |-> IF x = k THEN v ELSE m[x]]
EmptyMap == [x \in {} |-> x]

RECURSIVE flattenNodesSameParent(_, _, _, _)
\* a mutation of flattenNodes: the children are given their parent's parent
flattenNodesSameParent(nodes, i, parentId, m) ==
  IF i > Len(nodes) THEN m
  ELSE LET node == nodes[i]
           m1 == MapSet(m, Number(node.value),
                        [label |-> node.label, parentId |-> parentId])
           m2 == IF node.children # Null
                   THEN flattenNodesSameParent(node.children[1], 1, parentId, m1)
                   ELSE m1
       IN flattenNodesSameParent(nodes, i + 1, parentId, m2)

RECURSIVE flattenNodes(_, _, _, _)
\* the for-loop of flattenRegionsTree from index i on, threading the map
flattenNodes(nodes, i, parentId, m) ==
  IF i > Len(nodes) THEN m
  ELSE LET node == nodes[i]
           m1 == MapSet(m, Number(node.value),
                        [label |-> node.label, parentId |-> parentId])
           m2 == IF node.children # Null
                   THEN flattenNodes(node.children[1], 1, Some(Number(node.value)), m1)
                   ELSE m1
       IN flattenNodes(nodes, i + 1, parentId, m2)

flattenRegionsTree(nodes, parentId) == flattenNodes(nodes, 1, parentId, EmptyMap)

\* --------------------------------------------------------- tree functions
RECURSIVE trimTreeOneDeeper(_, _, _)
\* a mutation of trimTreeToDepth: the boundary is one level too deep
trimTreeOneDeeper(nodes, maxDepth, currentDepth) ==
  IF nodes = Null \/ currentDepth > maxDepth + 1 THEN Null
  ELSE Some([i \in 1..Len(nodes[1]) |->
              LET node == nodes[1][i] IN
              [value |-> node.value,
               label |-> node.label,
               children |-> IF currentDepth < maxDepth + 1
                              THEN trimTreeOneDeeper(node.children, maxDepth,
                                                     currentDepth + 1)
                              ELSE Null]])

RECURSIVE trimTreeNoGuard(_, _, _)
\* a mutation of trimTreeToDepth: currentDepth > maxDepth is not tested on entry
trimTreeNoGuard(nodes, maxDepth, currentDepth) ==
  IF nodes = Null THEN Null
  ELSE Some([i \in 1..Len(nodes[1]) |->
              LET node == nodes[1][i] IN
              [value |-> node.value,
               label |-> node.label,
               children |-> IF currentDepth < maxDepth
                              THEN trimTreeNoGuard(node.children, maxDepth,
                                                   currentDepth + 1)
                              ELSE Null]])

RECURSIVE trimTreeToDepth(_, _, _)
\* nodes is Null or Some(list of nodes), and so is the result
trimTreeToDepth(nodes, maxDepth, currentDepth) ==
  IF nodes = Null \/ currentDepth > maxDepth THEN Null
  ELSE Some([i \in 1..Len(nodes[1]) |->
              LET node == nodes[1][i] IN
              [value |-> node.value,
               label |-> node.label,
               children |-> IF currentDepth < maxDepth
                              THEN trimTreeToDepth(node.children, maxDepth,
                                                   currentDepth + 1)
                              ELSE Null]])

RECURSIVE findRegionInNodesShallow(_, _, _)
\* a mutation of findRegionInNodes: the children are not searched
findRegionInNodesShallow(nodes, i, regionId) ==
  IF i > Len(nodes) THEN Null
  ELSE IF Number(nodes[i].value) = regionId THEN Some(nodes[i])
       ELSE findRegionInNodesShallow(nodes, i + 1, regionId)

RECURSIVE findRegionInNodes(_, _, _)
\* the for-loop of findRegionInTree from index i on: Null or Some(node)
findRegionInNodes(nodes, i, regionId) ==
  IF i > Len(nodes) THEN Null
  ELSE LET node == nodes[i] IN
       IF Number(node.value) = regionId THEN Some(node)
       ELSE LET found == IF node.children # Null
                           THEN findRegionInNodes(node.children[1], 1, regionId)
                           ELSE Null
            IN IF found # Null THEN found
               ELSE findRegionInNodes(nodes, i + 1, regionId)

\* nodes is Null or Some(list of nodes)
findRegionInTree(nodes, regionId) ==
  IF nodes = Null THEN Null ELSE findRegionInNodes(nodes[1], 1, regionId)

\* a mutation of collectDescendants: only the children are collected
collectChildren(node) ==
  IF node.children = Null THEN {}
  ELSE {Number(node.children[1][i].value) : i \in 1..Len(node.children[1])}

RECURSIVE collectDescendants(_)
\* the ids collectDescendants(node) adds to the set
collectDescendants(node) ==
  IF node.children = Null THEN {}
  ELSE UNION { {Number(node.children[1][i].value)}
                 \cup collectDescendants(node.children[1][i]) :
               i \in 1..Len(node.children[1]) }

\* a mutation of getDescendantRegionIds: an id that is not found gives no ids
getDescendantRegionIdsStrict(cache, regionId) ==
  LET fullTree == cache IN
  IF fullTree = Null THEN {}
  ELSE LET regionNode == findRegionInTree(fullTree, regionId) IN
       IF regionNode = Null THEN {}
       ELSE {regionId} \cup collectDescendants(regionNode[1])

\* getDescendantRegionIds(regionId), reading the cache
getDescendantRegionIds(cache, regionId) ==
  LET fullTree == cache IN
  IF fullTree = Null THEN {regionId}
  ELSE LET regionNode == findRegionInTree(fullTree, regionId) IN
       IF regionNode = Null THEN {regionId}
       ELSE {regionId} \cup collectDescendants(regionNode[1])

\* a mutation of getRegionChildren: the node itself is projected
getRegionChildrenOfSelf(cache, regionId, depth) ==
  LET regionNode == findRegionInTree(cache, regionId) IN
  IF regionNode = Null
    THEN [found |-> FALSE, text |-> << "Region ", regionId, " not found" >>,
          children |-> Null]
    ELSE [found |-> TRUE, text |-> << "Children of ", regionNode[1].label >>,
          children |-> trimTreeToDepth(Some(<< regionNode[1] >>), depth, 1)]

\* what the get-region-children handler builds from the tree it was
\* handed: the 'not found' text, or the node's label and `children`
getRegionChildren(cache, regionId, depth) ==
  LET fullTree == cache
      regionNode == findRegionInTree(fullTree, regionId)
  IN IF regionNode = Null
       THEN [found |-> FALSE, text |-> << "Region ", regionId, " not found" >>,
             children |-> Null]
       ELSE [found |-> TRUE, text |-> << "Children of ", regionNode[1].label >>,
             children |-> IF regionNode[1].children # Null
                            THEN trimTreeToDepth(regionNode[1].children, depth, 1)
                            ELSE Null]

\* ------------------------------------------- the regions handler's result
\* filterRegions?.length: filterRegions is Null or Some(list of ids)
HasLength(a) == a # Null /\ Len(a[1]) > 0

\* a mutation of allowedRegionIds: the descendants are not added
allowedIdsOnly(cache, filterRegions) ==
  {filterRegions[i] : i \in 1..Len(filterRegions)}

\* the set allowedRegionIds built from a list of ids
allowedRegionIds(cache, filterRegions) ==
  UNION {getDescendantRegionIds(cache, filterRegions[i]) : i \in 1..Len(filterRegions)}

RECURSIVE Filter(_, _)
\* data.regions.filter((r) => allowedRegionIds.has(r.regionId))
Filter(rows, allowed) ==
  IF rows = <<>> THEN <<>>
  ELSE (IF Head(rows).regionId \in allowed THEN << Head(rows) >> ELSE <<>>)
         \o Filter(Tail(rows), allowed)

\* let filteredData = data.regions; if (filterRegions?.length) { ... }
filteredData(rows, cache, filterRegions) ==
  IF HasLength(filterRegions)
    THEN Filter(rows, allowedRegionIds(cache, filterRegions[1]))
    ELSE rows

RECURSIVE InsertBefore(_, _, _, _)
\* r put into a sorted list behind every row the comparator does not order
\* after it, so that rows that compare equal keep their order
InsertBefore(sorted, r, key, up) ==
  IF sorted = <<>> THEN << r >>
  ELSE IF (IF up THEN Head(sorted)[key] > r[key] ELSE Head(sorted)[key] < r[key])
         THEN << r >> \o sorted
         ELSE << Head(sorted) >> \o InsertBefore(Tail(sorted), r, key, up)

RECURSIVE SortFrom(_, _, _, _, _)
SortFrom(rows, i, acc, key, up) ==
  IF i > Len(rows) THEN acc
  ELSE SortFrom(rows, i + 1, InsertBefore(acc, rows[i], key, up), key, up)

\* a mutation of sortDescending: the comparator is (a, b) => a[key] - b[key]
sortAscending(rows, key) == SortFrom(rows, 1, <<>>, key, TRUE)

\* [...rows].sort((a, b) => b[key] - a[key]): Array.prototype.sort is stable
sortDescending(rows, key) == SortFrom(rows, 1, <<>>, key, FALSE)

\* rows.slice(0, n)
slice(rows, n) == SubSeq(rows, 1, IF n < Len(rows) THEN n ELSE Len(rows))

\* a mutation of regionName: the placeholder does not carry the id
regionNameBlank(flat, regionId) ==
  IF regionId \in DOMAIN flat /\ flat[regionId].label # ""
    THEN flat[regionId].label
    ELSE << "Unknown" >>

\* regionsFlatCache.get(r.regionId)?.label || `Unknown (${r.regionId})`,
\* the placeholder kept as its pieces
regionName(flat, regionId) ==
  IF regionId \in DOMAIN flat /\ flat[regionId].label # ""
    THEN flat[regionId].label
    ELSE << "Unknown (", regionId, ")" >>

\* .map((r) => ({ ...r, regionName: ... }))
withRegionName(rows, flat) ==
  [i \in 1..Len(rows) |->
     [regionId |-> rows[i].regionId, count |-> rows[i].count,
      share |-> rows[i].share, affinityIndex |-> rows[i].affinityIndex,
      regionName |-> regionName(flat, rows[i].regionId)]]

\* a mutation of regionsResult: topByAffinity is taken from the rows that
\* were kept for `regions`
regionsResultAffinityOfTop(rows, filterRegions, limit, cache, flat) ==
  LET filtered == filteredData(rows, cache, filterRegions)
      sorted == sortDescending(filtered, "count")
      enriched == withRegionName(slice(sorted, limit), flat)
      topByAffinity ==
        withRegionName(slice(sortDescending(slice(sorted, limit), "affinityIndex"),
                             TopByAffinityCount), flat)
  IN [filteredData |-> filtered, regions |-> enriched, topByAffinity |-> topByAffinity]

\* what the regions handler builds from data.regions once both awaited
\* promises have resolved: filteredData and the structuredContent
regionsResult(rows, filterRegions, limit, cache, flat) ==
  LET filtered == filteredData(rows, cache, filterRegions)
      sorted == sortDescending(filtered, "count")
      enriched == withRegionName(slice(sorted, limit), flat)
      topByAffinity ==
        withRegionName(slice(sortDescending(filtered, "affinityIndex"),
                             TopByAffinityCount), flat)
  IN [filteredData |-> filtered, regions |-> enriched, topByAffinity |-> topByAffinity]

\* ---------------------------------------------------------- rate limiter
\* a mutation of Shift: the head entry is not removed
ShiftNothing(q) == q

\* requestTimestamps.shift()
Shift(q) == IF q = <<>> THEN q ELSE Tail(q)

RECURSIVE Evict(_, _)
\* while (requestTimestamps.length > 0 && requestTimestamps[0] < windowStart) shift()
Evict(q, windowStart) ==
  IF q # <<>> /\ q[1] < windowStart THEN Evict(Tail(q), windowStart) ELSE q

\* a mutation of AtCeiling: the comparison is strict
AtCeilingStrict(q) == Len(q) > RATE_LIMIT

\* if (requestTimestamps.length >= RATE_LIMIT)
AtCeiling(q) == Len(q) >= RATE_LIMIT

\* a mutation of MustSuspend: a wait of zero suspends too
MustSuspendOnZero(waitTime) == waitTime >= 0

\* if (waitTime > 0)
MustSuspend(waitTime) == waitTime > 0

\* a mutation of rateLimitEnter: the window is added to the wait once more
rateLimitEnterLongWait(q, t) ==
  LET windowStart == t - WindowMs
      q1 == Evict(q, windowStart)
  IN IF AtCeiling(q1)
       THEN LET waitTime == q1[1] + WindowMs - windowStart
            IN IF MustSuspend(waitTime)
                 THEN [queue |-> q1, suspend |-> TRUE, wake |-> t + waitTime]
                 ELSE [queue |-> Append(Shift(q1), t), suspend |-> FALSE, wake |-> t]
       ELSE [queue |-> Append(q1, t), suspend |-> FALSE, wake |-> t]

\* rateLimit() from its entry to its first suspension point or its return:
\* the queue it leaves, whether it suspended, and when its timer is due.
rateLimitEnter(q, t) ==
  LET windowStart == t - WindowMs
      q1 == Evict(q, windowStart)
  IN IF AtCeiling(q1)
       THEN LET waitTime == q1[1] - windowStart
            IN IF MustSuspend(waitTime)
                 THEN [queue |-> q1, suspend |-> TRUE, wake |-> t + waitTime]
                 ELSE [queue |-> Append(Shift(q1), t), suspend |-> FALSE, wake |-> t]
       ELSE [queue |-> Append(q1, t), suspend |-> FALSE, wake |-> t]

\* a mutation of rateLimitResume: the timestamp pushed was read before the
\* suspension ended
rateLimitResumeStale(q, t) == Append(Shift(q), t - 1)

\* rateLimit() after its timer has fired: shift(), push(Date.now())
rateLimitResume(q, t) == Append(Shift(q), t)

\* a mutation of fetchesAfterRateLimit: rateLimit() is not awaited
fetchesWithoutAwait(suspend) == 1

\* `await rateLimit()` precedes fetch(): the fetch() calls wordstatRequest()
\* has made when rateLimit() has returned or has suspended
fetchesAfterRateLimit(suspend) == IF suspend THEN 0 ELSE 1


\* ------------------------------------------------------- remote responses
\* no response has been handled
NoOutcome == [state |-> "none", value |-> <<>>]

\* response.ok
IsOk(status) == status >= 200 /\ status <= 299

\* retryAfter ?? 'unknown'
OrUnknown(retryAfter) == IF retryAfter = Null THEN "unknown" ELSE retryAfter[1]

\* a mutation of ResponseOutcome: 503 is not told apart from other failures
ResponseOutcomeNo503(resp) ==
  IF ~IsOk(resp.status)
    THEN IF resp.status = 429
           THEN [state |-> "err",
                 value |-> << "Rate limit exceeded. Retry after ",
                              OrUnknown(resp.retryAfter), " seconds. ", resp.body >>]
         ELSE [state |-> "err",
               value |-> << "Wordstat API error (", resp.status, "): ", resp.body >>]
    ELSE [state |-> "ok", value |-> resp.body]

\* what wordstatRequest() settles with for a received response: the parsed
\* JSON, or an Error whose message is the listed pieces joined
ResponseOutcome(resp) ==
  IF ~IsOk(resp.status)
    THEN IF resp.status = 429
           THEN [state |-> "err",
                 value |-> << "Rate limit exceeded. Retry after ",
                              OrUnknown(resp.retryAfter), " seconds. ", resp.body >>]
         ELSE IF resp.status = 503
           THEN [state |-> "err",
                 value |-> << "Service unavailable (quota exceeded). ", resp.body >>]
         ELSE [state |-> "err",
               value |-> << "Wordstat API error (", resp.status, "): ", resp.body >>]
    ELSE [state |-> "ok", value |-> resp.body]

\* what wordstatRequest() settles with when fetch() rejects
FetchError == [state |-> "err", value |-> << "fetch failed" >>]

\* the responses the remote gives in the concurrent model
Responses(k) ==
  { [status |-> 429, retryAfter |-> Null, body |-> "e"] } \cup
  { [status |-> 200, retryAfter |-> Null, body |-> b] :
      b \in IF k = "tree" THEN Trees ELSE {DataPayload} }

\* the responses ResponseOutcome is applied to on its own
Statuses == {200, 201, 204, 299, 300, 304, 400, 401, 404, 428, 429, 430, 500, 502, 503, 504}
AllResponses ==
  [status : Statuses, retryAfter : {Null, Some("1"), Some("30")}, body : {"", "e", "quota"}]

\* ------------------------------------------------------------- tree cache
\* a mutation of CacheMiss: the cache is never consulted
CacheMissAlways(cache) == TRUE

\* if (!regionsTreeCache)
CacheMiss(cache) == cache = Null

\* a mutation of treeCacheAfter: a failed fetch is cached as an empty tree
treeCacheAfterSwallow(cache, o) == IF o.state = "ok" THEN Some(o.value) ELSE Some(<<>>)

\* regionsTreeCache = await wordstatRequest(...): assigned only when the
\* awaited request resolves; a rejection leaves the variable as it was
treeCacheAfter(cache, o) == IF o.state = "ok" THEN Some(o.value) ELSE cache

\* a mutation of flatCacheAfter: an index that exists is not built again
flatCacheAfterKeep(flat, o) ==
  IF o.state = "ok" /\ flat = Null THEN Some(flattenRegionsTree(o.value, Null)) ELSE flat

\* regionsFlatCache = new Map(); flattenRegionsTree(regionsTreeCache, null)
flatCacheAfter(flat, o) ==
  IF o.state = "ok" THEN Some(flattenRegionsTree(o.value, Null)) ELSE flat

\* ------------------------------------------------------------------ state
VARIABLES
  now,                \* Date.now()
  requestTimestamps,  \* the rate limiter's queue
  regionsTreeCache,   \* Null or Some(forest)
  regionsFlatCache,   \* Null or Some(map id -> [label, parentId])
  flows,              \* the wordstatRequest() calls in progress, in the order in
                      \* which they were made; of each one
                      \*   kind: the endpoint, "data" or "tree"
                      \*   pc: "wait" (on the rate limiter's timer) or
                      \*       "inflight" (on its fetch())
                      \*   deadline: when its timer is due (0 without a timer)
                      \*   suspended: whether its rateLimit() suspended
                      \*   admCount, netCount (history): the timestamps it
                      \*       pushed and the fetch() calls it made
  ret,                \* what the step just taken handed to a handler: the outcome
                      \* of a settled request or the tree returned from the cache
  calls,              \* history: wordstatRequest() calls started
  admitted,           \* history: the timestamps pushed by rateLimit(), in order
  overlapped,         \* history: a rateLimit() call began while another was suspended
  treeFetched,        \* history: a getRegionsTree() call has completed successfully
  input, output       \* argument and result of a function applied on its own

vars == << now, requestTimestamps, regionsTreeCache, regionsFlatCache, flows,
           ret, calls, admitted, overlapped, treeFetched, input, output >>

\* nothing was handed to a handler
NoRet == [kind |-> "none", state |-> "none", value |-> <<>>,
          admissions |-> 0, fetches |-> 0]

Init ==
  /\ now = 0
  /\ requestTimestamps = <<>>
  /\ regionsTreeCache = Null
  /\ regionsFlatCache = Null
  /\ flows = <<>>
  /\ ret = NoRet
  /\ calls = 0
  /\ admitted = <<>>
  /\ overlapped = FALSE
  /\ treeFetched = FALSE
  /\ input = Null
  /\ output = NoOutcome

Slots == 1..NumFlows
Waiting == {i \in DOMAIN flows : flows[i].pc = "wait"}
Remove(q, i) == SubSeq(q, 1, i - 1) \o SubSeq(q, i + 1, Len(q))

\* Date.now() advances
Tick ==
  /\ now < MaxTicks * TickMs
  /\ now' = now + TickMs
  /\ ret' = NoRet
  /\ UNCHANGED << requestTimestamps, regionsTreeCache, regionsFlatCache, flows,
                  calls, admitted, overlapped, treeFetched, input, output >>

\* A wordstatRequest(endpoint) call that has run to its first suspension
\* point, r being what rateLimitEnter gave: suspended on the rate limiter's
\* timer, or admitted and suspended on its fetch().
NewFlow(k, r) ==
  [kind |-> k,
   pc |-> IF r.suspend THEN "wait" ELSE "inflight",
   deadline |-> IF r.suspend THEN r.wake ELSE 0,
   suspended |-> r.suspend,
   admCount |-> IF r.suspend THEN 0 ELSE 1,
   netCount |-> fetchesAfterRateLimit(r.suspend)]

\* wordstatRequest(endpoint) is called
wordstatRequest(k) ==
  LET r == rateLimitEnter(requestTimestamps, now) IN
  /\ Len(flows) < NumFlows
  /\ calls < MaxCalls
  /\ calls' = calls + 1
  /\ requestTimestamps' = r.queue
  /\ admitted' = IF r.suspend THEN admitted ELSE Append(admitted, now)
  /\ overlapped' = (overlapped \/ Waiting # {})
  /\ flows' = Append(flows, NewFlow(k, r))
  /\ UNCHANGED << now, regionsTreeCache, regionsFlatCache, treeFetched,
                  input, output >>

\* what getRegionsTree() returns when the cache is present
CachedTree ==
  [kind |-> "cached", state |-> "ok", value |-> regionsTreeCache[1],
   admissions |-> 0, fetches |-> 0]

\* getRegionsTree() is called
getRegionsTree ==
  IF CacheMiss(regionsTreeCache)
    THEN /\ wordstatRequest("tree")
         /\ ret' = NoRet
    ELSE /\ ret' = CachedTree
         /\ UNCHANGED << now, requestTimestamps, regionsTreeCache, regionsFlatCache,
                         flows, calls, admitted, overlapped, treeFetched,
                         input, output >>

\* a handler that makes one data request (top-requests, dynamics)
StartDataTool ==
  /\ wordstatRequest("data")
  /\ ret' = NoRet

\* the get-regions-tree and get-region-children handlers
StartTreeTool == getRegionsTree

\* the regions handler: Promise.all([wordstatRequest('/v1/regions', body),
\* getRegionsTree()]) makes the data request and then, unless the tree is
\* cached, the tree request
StartRegionsTool ==
  LET r1 == rateLimitEnter(requestTimestamps, now)
      r2 == rateLimitEnter(r1.queue, now)
      adm1 == IF r1.suspend THEN admitted ELSE Append(admitted, now)
  IN
  /\ IF CacheMiss(regionsTreeCache)
       THEN /\ Len(flows) + 1 < NumFlows
            /\ calls + 1 < MaxCalls
            /\ calls' = calls + 2
            /\ requestTimestamps' = r2.queue
            /\ admitted' = IF r2.suspend THEN adm1 ELSE Append(adm1, now)
            /\ overlapped' = (overlapped \/ Waiting # {} \/ r1.suspend)
            /\ flows' = flows \o << NewFlow("data", r1), NewFlow("tree", r2) >>
            /\ ret' = NoRet
       ELSE /\ Len(flows) < NumFlows
            /\ calls < MaxCalls
            /\ calls' = calls + 1
            /\ requestTimestamps' = r1.queue
            /\ admitted' = adm1
            /\ overlapped' = (overlapped \/ Waiting # {})
            /\ flows' = Append(flows, NewFlow("data", r1))
            /\ ret' = CachedTree
  /\ UNCHANGED << now, regionsTreeCache, regionsFlatCache, treeFetched, input, output >>

\* the timer of the suspended rateLimit() of flow i fires: rateLimit()
\* returns and wordstatRequest() goes on to its fetch()
TimerFire(i) ==
  /\ i \in DOMAIN flows
  /\ flows[i].pc = "wait"
  /\ now >= flows[i].deadline
  /\ requestTimestamps' = rateLimitResume(requestTimestamps, now)
  /\ admitted' = Append(admitted, now)
  /\ flows' = [flows EXCEPT ![i] = [@ EXCEPT !.pc = "inflight", !.deadline = 0,
                                             !.admCount = @ + 1, !.netCount = @ + 1]]
  /\ ret' = NoRet
  /\ UNCHANGED << now, regionsTreeCache, regionsFlatCache, calls, overlapped,
                  treeFetched, input, output >>

\* a mutation of Settle: a failed request is issued once more
SettleWithRetry(i, o) ==
  /\ IF o.state = "err" /\ flows[i].netCount < 2
       THEN /\ flows' = [flows EXCEPT ![i].netCount = @ + 1]
            /\ ret' = NoRet
       ELSE /\ flows' = Remove(flows, i)
            /\ ret' = [kind |-> flows[i].kind, state |-> o.state, value |-> o.value,
                       admissions |-> flows[i].admCount, fetches |-> flows[i].netCount]
  /\ UNCHANGED << now, requestTimestamps, regionsTreeCache, regionsFlatCache,
                  treeFetched, calls, admitted, overlapped, input, output >>

\* wordstatRequest() of flow i settles with outcome o; for a tree request
\* getRegionsTree() goes on from its await; the handler is handed the result
Settle(i, o) ==
  /\ flows' = Remove(flows, i)
  /\ ret' = [kind |-> flows[i].kind, state |-> o.state, value |-> o.value,
             admissions |-> flows[i].admCount, fetches |-> flows[i].netCount]
  /\ IF flows[i].kind = "tree"
       THEN /\ regionsTreeCache' = treeCacheAfter(regionsTreeCache, o)
            /\ regionsFlatCache' = flatCacheAfter(regionsFlatCache, o)
            /\ treeFetched' = (treeFetched \/ o.state = "ok")
       ELSE UNCHANGED << regionsTreeCache, regionsFlatCache, treeFetched >>
  /\ UNCHANGED << now, requestTimestamps, calls, admitted, overlapped,
                  input, output >>

\* a response arrives for the request of flow i
Respond(i) ==
  /\ i \in DOMAIN flows
  /\ flows[i].pc = "inflight"
  /\ \E resp \in Responses(flows[i].kind) : Settle(i, ResponseOutcome(resp))

\* fetch() of flow i rejects: no response was received
NetworkFail(i) ==
  /\ i \in DOMAIN flows
  /\ flows[i].pc = "inflight"
  /\ Settle(i, FetchError)

Next ==
  \/ Tick
  \/ StartDataTool
  \/ StartTreeTool
  \/ StartRegionsTool
  \/ \E i \in Slots : TimerFire(i)
  \/ \E i \in Slots : Respond(i)
  \/ \E i \in Slots : NetworkFail(i)

Spec == Init /\ [][Next]_vars


\* ------------------------------------------- functions applied on their own
\* wordstatRequest()'s handling of one received response
ApplyResponseOutcome ==
  /\ \E resp \in AllResponses :
       /\ input' = resp
       /\ output' = ResponseOutcome(resp)
  /\ UNCHANGED << now, requestTimestamps, regionsTreeCache, regionsFlatCache,
                  flows, ret, calls, admitted, overlapped, treeFetched >>

PureNext ==
  \/ ApplyResponseOutcome

PureSpec == Init /\ [][PureNext]_vars

\* ------------------------------------------------ tree functions on their own
\* forests the tree endpoint may send: leaves come with children absent or
\* with an empty list; ids are unique
TreeChain == << Node("1", "Russia", << Node("2", "Center", << Node("3", "Moscow",
                  << Leaf("4", "Arbat") >>) >>) >>), Leaf("5", "Belarus") >>
TreeEmptyKids == << Node("1", "Russia", << Node("2", "Center", <<>>),
                                           Leaf("3", "Siberia") >>) >>
TreeLeaf == << Leaf("1", "Russia") >>
TreeWide == << Node("1", "Russia", << Leaf("2", "Center"), Leaf("3", "Volga"),
                 Node("4", "Siberia", << Node("5", "Altai", << Leaf("6", "Biysk") >>) >>) >>),
               Leaf("7", "Belarus") >>
TreeTwo == << Node("1", "Russia", << Leaf("2", "Center") >>),
              Node("3", "Belarus", << Node("4", "Minsk", << Leaf("5", "Borisov") >>) >>) >>
TreeSamples == {TreeA, TreeB, TreeChain, TreeEmptyKids, TreeLeaf, TreeWide, TreeTwo, <<>>}

\* region ids given as arguments: those of the samples and one of no sample
RegionIds == 1..7 \cup {999}

\* the session after getRegionsTree() has cached one of the samples
TreeInit ==
  /\ now = 0
  /\ requestTimestamps = <<>>
  /\ \E t \in TreeSamples :
       /\ regionsTreeCache = Some(t)
       /\ regionsFlatCache = Some(flattenRegionsTree(t, Null))
  /\ flows = <<>>
  /\ ret = NoRet
  /\ calls = 0
  /\ admitted = <<>>
  /\ overlapped = FALSE
  /\ treeFetched = TRUE
  /\ input = [fn |-> "none"]
  /\ output = NoOutcome

\* a mutation of ApplyTrimTreeToDepth: the projection is written over the
\* cached tree
ApplyTrimInPlace ==
  /\ \E depth \in -1..MaxDepth :
       /\ input' = [fn |-> "trimTreeToDepth", maxDepth |-> depth]
       /\ output' = trimTreeToDepth(regionsTreeCache, depth, 1)
       /\ regionsTreeCache' = IF output' = Null THEN Some(<<>>) ELSE output'
  /\ UNCHANGED << now, requestTimestamps, regionsFlatCache,
                  flows, ret, calls, admitted, overlapped, treeFetched >>

\* trimTreeToDepth(fullTree, depth) as the get-regions-tree handler calls it
ApplyTrimTreeToDepth ==
  /\ \E depth \in -1..MaxDepth :
       /\ input' = [fn |-> "trimTreeToDepth", maxDepth |-> depth]
       /\ output' = trimTreeToDepth(regionsTreeCache, depth, 1)
  /\ UNCHANGED << now, requestTimestamps, regionsTreeCache, regionsFlatCache,
                  flows, ret, calls, admitted, overlapped, treeFetched >>

\* getDescendantRegionIds(regionId)
ApplyGetDescendantRegionIds ==
  /\ \E regionId \in RegionIds :
       /\ input' = [fn |-> "getDescendantRegionIds", regionId |-> regionId]
       /\ output' = getDescendantRegionIds(regionsTreeCache, regionId)
  /\ UNCHANGED << now, requestTimestamps, regionsTreeCache, regionsFlatCache,
                  flows, ret, calls, admitted, overlapped, treeFetched >>

\* rows the data endpoint may send as data.regions
Row(id, c, a) == [regionId |-> id, count |-> c, share |-> 1, affinityIndex |-> a]
RowsRanking == << Row(1, 5, 100), Row(2, 50, 90), Row(3, 50, 120) >>
RowsScoped == << Row(2, 10, 100), Row(3, 30, 200), Row(4, 20, 50) >>
RowsUnknown == << Row(999, 40, 300), Row(2, 40, 100), Row(4, 60, 80) >>
RowsMany == << Row(1, 70, 10), Row(2, 60, 20), Row(3, 60, 30), Row(4, 50, 40),
               Row(5, 40, 50), Row(6, 30, 60), Row(7, 30, 70) >>
RowSamples == {RowsRanking, RowsScoped, RowsUnknown, RowsMany, <<>>}

\* the `regions` argument of the regions handler: absent or a list of ids
FilterSamples == {Null, Some(<<>>), Some(<< 2 >>), Some(<< 1 >>), Some(<< 2, 4 >>),
                  Some(<< 999 >>), Some(<< 4, 999 >>)}

\* the regions handler after its await, both promises resolved
ApplyRegionsResult ==
  /\ \E rows \in RowSamples, filterRegions \in FilterSamples, limit \in 1..MaxLimit :
       /\ input' = [fn |-> "regions", rows |-> rows,
                    filterRegions |-> filterRegions, limit |-> limit]
       /\ output' = regionsResult(rows, filterRegions, limit,
                                  regionsTreeCache, regionsFlatCache[1])
  /\ UNCHANGED << now, requestTimestamps, regionsTreeCache, regionsFlatCache,
                  flows, ret, calls, admitted, overlapped, treeFetched >>

\* a forest in which an id occurs twice
TreeTwins == << Node("1", "Russia", << Leaf("2", "Center") >>),
                Node("3", "Belarus", << Leaf("2", "Twin") >>) >>

\* flattenRegionsTree(regionsTreeCache, null) on a fetched forest
ApplyFlattenRegionsTree ==
  /\ \E t \in TreeSamples :
       /\ input' = [fn |-> "flattenRegionsTree", nodes |-> t]
       /\ output' = flattenRegionsTree(t, Null)
  /\ UNCHANGED << now, requestTimestamps, regionsTreeCache, regionsFlatCache,
                  flows, ret, calls, admitted, overlapped, treeFetched >>

\* findRegionInTree(fullTree, regionId)
ApplyFindRegionInTree ==
  /\ \E t \in TreeSamples \cup {TreeTwins}, regionId \in RegionIds :
       /\ input' = [fn |-> "findRegionInTree", nodes |-> t, regionId |-> regionId]
       /\ output' = findRegionInTree(Some(t), regionId)
  /\ UNCHANGED << now, requestTimestamps, regionsTreeCache, regionsFlatCache,
                  flows, ret, calls, admitted, overlapped, treeFetched >>

\* the get-region-children handler after its await
ApplyGetRegionChildren ==
  /\ \E regionId \in RegionIds, depth \in 1..MaxDepth :
       /\ input' = [fn |-> "getRegionChildren", regionId |-> regionId, depth |-> depth]
       /\ output' = getRegionChildren(regionsTreeCache, regionId, depth)
  /\ UNCHANGED << now, requestTimestamps, regionsTreeCache, regionsFlatCache,
                  flows, ret, calls, admitted, overlapped, treeFetched >>

TreeNext ==
  \/ ApplyTrimTreeToDepth
  \/ ApplyGetDescendantRegionIds
  \/ ApplyRegionsResult
  \/ ApplyFlattenRegionsTree
  \/ ApplyFindRegionInTree
  \/ ApplyGetRegionChildren

TreeSpec == TreeInit /\ [][TreeNext]_vars

\* ------------------------------------------- the tool handlers, one call at
\* a time: what a handler returns as a function of how the requests it
\* awaits settle, in the order in which they settle
\* no tool was called yet
NoCall == [fn |-> "none", args |-> <<>>, awaited |-> <<>>, rows |-> <<>>, done |-> FALSE]

ToolInit ==
  /\ now = 0
  /\ requestTimestamps = <<>>
  /\ regionsTreeCache = Null
  /\ regionsFlatCache = Null
  /\ flows = <<>>
  /\ ret = NoRet
  /\ calls = 0
  /\ admitted = <<>>
  /\ overlapped = FALSE
  /\ treeFetched = FALSE
  /\ input = NoCall
  /\ output = NoOutcome

\* the responses the remote gives to the request a handler awaits
ToolResponses(k) ==
  { [status |-> 429, retryAfter |-> Null, body |-> "e"],
    [status |-> 503, retryAfter |-> Null, body |-> "quota"] } \cup
  { [status |-> 200, retryAfter |-> Null, body |-> b] :
      b \in IF k = "tree" THEN Trees ELSE RowSamples }

\* a mutation of promiseAll: a rejection of the data request is not seen
promiseAllIgnoreData(awaited) ==
  IF \E k \in DOMAIN awaited : k # "data" /\ awaited[k] = "err" THEN "rejected"
  ELSE IF \E k \in DOMAIN awaited : awaited[k] = "pending" THEN "pending"
  ELSE "fulfilled"

\* await p and await Promise.all([...]): rejected as soon as one of the
\* awaited promises is, fulfilled when all of them are; the handlers have no
\* try/catch, so the handler's own promise settles the same way
promiseAll(awaited) ==
  IF \E k \in DOMAIN awaited : awaited[k] = "err" THEN "rejected"
  ELSE IF \E k \in DOMAIN awaited : awaited[k] = "pending" THEN "pending"
  ELSE "fulfilled"

\* what a handler builds once everything it awaited is there
toolResult(fn, args, rows, cache, flat) ==
  CASE fn = "get-regions-tree" -> trimTreeToDepth(cache, args.depth, 1)
    [] fn = "get-region-children" -> getRegionChildren(cache, args.regionId, args.depth)
    [] fn = "regions" -> regionsResult(rows, args.filterRegions, args.limit,
                                       cache, flat[1])

\* the handler whose frame is `frame` runs on until its next await or its
\* end; `error` is the rejection that woke it, if one did
ToolStep(frame, error) ==
  LET verdict == promiseAll(frame.awaited) IN
  /\ input' = [frame EXCEPT !.done = verdict # "pending"]
  /\ output' = IF verdict = "rejected" THEN error
               ELSE IF verdict = "fulfilled"
                 THEN [state |-> "ok",
                       value |-> toolResult(frame.fn, frame.args, frame.rows,
                                            regionsTreeCache', regionsFlatCache')]
               ELSE NoOutcome

\* a tool is called while no request is pending; getRegionsTree() resolves
\* at once when the tree is cached
StartTool(fn, args, names) ==
  /\ \A k \in DOMAIN input.awaited : input.awaited[k] # "pending"
  /\ ret' = NoRet
  /\ UNCHANGED << now, requestTimestamps, regionsTreeCache, regionsFlatCache,
                  flows, calls, admitted, overlapped, treeFetched >>
  /\ ToolStep([fn |-> fn, args |-> args,
               awaited |-> [k \in names |->
                              IF k = "tree" /\ ~CacheMiss(regionsTreeCache)
                                THEN "ok" ELSE "pending"],
               rows |-> <<>>, done |-> FALSE],
              NoOutcome)

CallGetRegionsTree ==
  \E depth \in 1..MaxDepth :
    StartTool("get-regions-tree", [depth |-> depth], {"tree"})

CallGetRegionChildren ==
  \E regionId \in RegionIds, depth \in 1..MaxDepth :
    StartTool("get-region-children", [regionId |-> regionId, depth |-> depth], {"tree"})

CallRegionsTool ==
  \E filterRegions \in FilterSamples, limit \in 1..MaxLimit :
    StartTool("regions", [filterRegions |-> filterRegions, limit |-> limit],
              {"data", "tree"})

\* the pending request k settles with outcome o: getRegionsTree() fills the
\* caches whether or not the handler is still waiting, and a handler whose
\* Promise.all has rejected does not run again
ToolSettle(k, o) ==
  /\ k \in DOMAIN input.awaited
  /\ input.awaited[k] = "pending"
  /\ ret' = [kind |-> k, state |-> o.state, value |-> o.value,
             admissions |-> 1, fetches |-> 1]
  /\ regionsTreeCache' = IF k = "tree" THEN treeCacheAfter(regionsTreeCache, o)
                         ELSE regionsTreeCache
  /\ regionsFlatCache' = IF k = "tree" THEN flatCacheAfter(regionsFlatCache, o)
                         ELSE regionsFlatCache
  /\ UNCHANGED << now, requestTimestamps, flows, calls, admitted, overlapped,
                  treeFetched >>
  /\ LET frame == [input EXCEPT !.awaited[k] = o.state,
                                !.rows = IF k = "data" /\ o.state = "ok"
                                           THEN o.value ELSE @]
     IN IF input.done
          THEN input' = frame /\ output' = output
          ELSE ToolStep(frame, o)

ToolRespond ==
  \E k \in {"data", "tree"} : \E resp \in ToolResponses(k) :
    ToolSettle(k, ResponseOutcome(resp))

ToolNetworkFail ==
  \E k \in {"data", "tree"} : ToolSettle(k, FetchError)

ToolNext ==
  \/ CallGetRegionsTree
  \/ CallGetRegionChildren
  \/ CallRegionsTool
  \/ ToolRespond
  \/ ToolNetworkFail

ToolSpec == ToolInit /\ [][ToolNext]_vars

\* ------------------------------------------------------------- properties
Last(q) == q[Len(q)]

\* the admissions whose timestamp lies within the 1000 ms that end at time t
InWindow(t) == {i \in DOMAIN admitted : admitted[i] > t - WindowMs}

\* the requests to the tree endpoint that are in flight
TreeRequestsInFlight ==
  {i \in DOMAIN flows : flows[i].kind = "tree" /\ flows[i].pc = "inflight"}

\* the calls made in the step: flows are kept in the order of their calls
Started == {i \in DOMAIN flows' : i > Len(flows)}

\* C1: single-flight: getRegionsTree() calls that overlap while the cache is
\* unfetched share one request, so two requests to the tree endpoint are
\* never in flight at the same time.
C1_SingleFlight == Cardinality(TreeRequestsInFlight) <= 1

\* C2: rate ceiling: at the moment of any admission at most RATE_LIMIT
\* admissions, the new one included, lie within the trailing 1000 ms.
C2_RateCeiling ==
  admitted # <<>> => Cardinality(InWindow(Last(admitted))) <= RATE_LIMIT

C4_FastPath ==
  [][\A i \in Started :
       /\ flows'[i].pc = "wait" =>
            /\ Cardinality({j \in DOMAIN admitted' : admitted'[j] > now - WindowMs})
                 >= RATE_LIMIT
            /\ flows'[i].deadline > now
       /\ flows'[i].pc = "inflight" =>
            /\ Len(admitted') > Len(admitted)
            /\ Last(admitted') = now
            /\ Last(requestTimestamps') = now
            /\ flows'[i].admCount = 1
     ]_vars

\* a call admitted without suspension after the queue had filled up
C4_Witness ==
  /\ Len(admitted) > RATE_LIMIT
  /\ Last(admitted) = now
  /\ flows # <<>>
  /\ \A i \in DOMAIN flows :
       flows[i].pc = "inflight" /\ ~flows[i].suspended /\ flows[i].admCount = 1

\* C5: the cache goes from unfetched to fetched at most once: once the tree
\* and the flat index are populated they are never assigned again.
C5_FetchedOnce ==
  [][regionsTreeCache # Null =>
       /\ regionsTreeCache' = regionsTreeCache
       /\ regionsFlatCache' = regionsFlatCache
    ]_vars

\* a step in which some handler calls getRegionsTree(): it makes a request
\* to the tree endpoint or is handed the cached tree
TreeRequestStarts == \E i \in Started : flows'[i].kind = "tree"
GetRegionsTreeCalled == TreeRequestStarts \/ ret'.kind = "cached"

\* C6: cache hit: once a getRegionsTree() call has completed successfully,
\* every getRegionsTree() call made afterwards returns the cached tree at
\* once, with the flat index present, and makes no request to the tree
\* endpoint.
C6_CacheHit ==
  [][(treeFetched /\ GetRegionsTreeCalled) =>
       /\ ret'.kind = "cached"
       /\ ret'.state = "ok"
       /\ Some(ret'.value) = regionsTreeCache
       /\ regionsFlatCache # Null
       /\ ~TreeRequestStarts
       /\ UNCHANGED << regionsTreeCache, regionsFlatCache >>
    ]_vars

\* a getRegionsTree() call served from the cache
C6_Witness == treeFetched /\ ret.kind = "cached"

\* C7: a failed tree fetch is not cached: when the request of a
\* getRegionsTree() call settles, either it succeeded, or the call rejects
\* with the failure and leaves both caches as they were; and a
\* getRegionsTree() call made while the cache is unfetched makes a request.
C7_FailureNotCached ==
  [][/\ ret'.kind = "tree" =>
          \/ /\ ret'.state = "ok"
             /\ regionsTreeCache' = Some(ret'.value)
          \/ /\ ret'.state = "err"
             /\ UNCHANGED << regionsTreeCache, regionsFlatCache >>
     /\ (GetRegionsTreeCalled /\ regionsTreeCache = Null) =>
          /\ TreeRequestStarts
          /\ ret'.kind # "cached"
          /\ calls' > calls
    ]_vars

\* a getRegionsTree() call has failed and the cache is still unfetched
C7_Witness ==
  /\ ret.kind = "tree" /\ ret.state = "err"
  /\ regionsTreeCache = Null /\ regionsFlatCache = Null

\* C8: every remote call passes through the rate limiter: a call has made
\* no fetch() while its rateLimit() is suspended, and never more fetch()
\* calls than it has recorded admissions.
C8_AdmitBeforeFetch ==
  \A i \in DOMAIN flows :
    /\ flows[i].netCount <= flows[i].admCount
    /\ flows[i].pc = "wait" => flows[i].netCount = 0
    /\ flows[i].pc = "inflight" => flows[i].admCount >= 1

\* a request issued after its rateLimit() had suspended and been released
C8_Witness ==
  \E i \in DOMAIN flows :
    /\ flows[i].pc = "inflight" /\ flows[i].suspended
    /\ flows[i].admCount = 1 /\ flows[i].netCount = 1

\* C9: wordstatRequest() maps a response by its status: 429 to the
\* rate-limit failure carrying the Retry-After header or 'unknown', 503 to
\* the quota failure, any other non-2xx status to the generic failure with
\* the status and the body, and a 2xx status to the parsed body.
C9_OutcomeByStatus ==
  output.state # "none" =>
    LET s == input.status IN
    /\ s = 429 =>
         /\ output.state = "err"
         /\ output.value[1] = "Rate limit exceeded. Retry after "
         /\ output.value[2] =
              (IF input.retryAfter = Null THEN "unknown" ELSE input.retryAfter[1])
    /\ s = 503 =>
         /\ output.state = "err"
         /\ output.value[1] = "Service unavailable (quota exceeded). "
    /\ (s \notin 200..299 /\ s \notin {429, 503}) =>
         /\ output.state = "err"
         /\ output.value[1] = "Wordstat API error ("
         /\ output.value[2] = s
         /\ output.value[4] = input.body
    /\ s \in 200..299 =>
         /\ output.state = "ok"
         /\ output.value = input.body

\* a 429 response without the Retry-After header has been mapped
C9_Witness ==
  /\ output.state # "none"
  /\ input.status = 429
  /\ input.retryAfter = Null
  /\ output.value[2] = "unknown"

\* C10: no retries: a wordstatRequest() call records at most one admission
\* and makes at most one fetch(); a request in flight is not touched until
\* it settles, and then the call is over, with exactly one admission made,
\* and hands the outcome to its caller.
C10_NoRetries ==
  [][/\ \A i \in DOMAIN flows' :
          flows'[i].admCount <= 1 /\ flows'[i].netCount <= 1
     /\ ret'.kind \in {"data", "tree"} =>
          /\ Len(flows') = Len(flows) - 1
          /\ ret'.state \in {"ok", "err"}
          /\ ret'.admissions = 1
          /\ ret'.fetches <= 1
    ]_vars

\* a request has failed and its call is over after one fetch()
C10_Witness ==
  /\ ret.kind = "data" /\ ret.state = "err"
  /\ ret.admissions = 1 /\ ret.fetches = 1

\* C11: the queue of the rate limiter never holds more than RATE_LIMIT
\* timestamps, whatever the number and interleaving of rateLimit() calls.
C11_QueueBounded == Len(requestTimestamps) <= RATE_LIMIT

\* the queue is full and a further call has been admitted through it
C11_Witness ==
  /\ Len(requestTimestamps) = RATE_LIMIT
  /\ Len(admitted) > RATE_LIMIT

\* C12: FIFO admission: a call is never admitted (in flight, its timestamp
\* recorded) while a call that invoked rateLimit() before it is still
\* suspended.
C12_FifoAdmission ==
  \A i, j \in DOMAIN flows :
    (i < j /\ flows[i].pc = "wait") => flows[j].pc = "wait"

\* the calls whose suspended rateLimit() is released in the step
Released ==
  {i \in DOMAIN flows :
     /\ Len(flows') = Len(flows)
     /\ flows[i].pc = "wait"
     /\ flows'[i].pc = "inflight"}

\* C13: the timestamp recorded for an admission is the time at which
\* rateLimit() releases the caller: a call that suspends records nothing
\* when it enters and is due later than the time at which it entered, and
\* when it is released the timestamp pushed is Date.now() read then, which
\* is not before the time it was due.
C13_RecordedAtRelease ==
  [][/\ \A i \in Started :
          /\ flows'[i].pc = "wait" => flows'[i].deadline > now
          /\ flows'[i].pc = "inflight" => Last(requestTimestamps') = now
     /\ Started # {} =>
          Len(admitted') - Len(admitted) =
            Cardinality({i \in Started : flows'[i].pc = "inflight"})
     /\ \A i \in Released :
          /\ Len(admitted') = Len(admitted) + 1
          /\ Last(admitted') = now'
          /\ Last(requestTimestamps') = now'
          /\ Last(requestTimestamps') >= flows[i].deadline
    ]_vars

\* a call released after a suspension: its timestamp is the time of release
C13_Witness ==
  /\ \E i \in DOMAIN flows : flows[i].pc = "inflight" /\ flows[i].suspended
  /\ Last(admitted) = now
  /\ now >= WindowMs

\* the positions of the nodes of a forest: a position is the list of child
\* indexes that leads from the roots to the node
RECURSIVE PathsOf(_, _)
PathsOf(nodes, prefix) ==
  UNION { {Append(prefix, i)} \cup
            (IF nodes[i].children = Null THEN {}
             ELSE PathsOf(nodes[i].children[1], Append(prefix, i))) :
          i \in 1..Len(nodes) }

RECURSIVE NodeAt(_, _)
NodeAt(nodes, path) ==
  IF Len(path) = 1 THEN nodes[path[1]]
  ELSE NodeAt(nodes[path[1]].children[1], Tail(path))

IdAt(nodes, path) == Number(NodeAt(nodes, path).value)
IdsIn(nodes) == {IdAt(nodes, p) : p \in PathsOf(nodes, <<>>)}

\* the ids of the subtree rooted at the node with the given id: the nodes
\* whose position passes through it
SubtreeIds(nodes, id) ==
  {IdAt(nodes, p) : p \in {q \in PathsOf(nodes, <<>>) :
                             \E k \in 1..Len(q) : IdAt(nodes, SubSeq(q, 1, k)) = id}}

\* C14: descendant closure: for every id present in the cached tree,
\* getDescendantRegionIds(id) is exactly the set of the ids of the subtree
\* rooted at the node with that id, the id itself included.
C14_DescendantClosure ==
  (input.fn = "getDescendantRegionIds" /\ input.regionId \in IdsIn(regionsTreeCache[1])) =>
    /\ input.regionId \in output
    /\ output = SubtreeIds(regionsTreeCache[1], input.regionId)

\* the closure of an inner node that has grandchildren and is not the whole tree
C14_Witness ==
  /\ input.fn = "getDescendantRegionIds"
  /\ input.regionId \in IdsIn(regionsTreeCache[1])
  /\ Cardinality(output) >= 3
  /\ output # IdsIn(regionsTreeCache[1])

\* the nodes of a forest (Null or Some(list)) with their depths, parents
\* before children and siblings in order
RECURSIVE Preorder(_, _)
RECURSIVE PreorderFrom(_, _, _)
Preorder(nodes, depth) ==
  IF nodes = Null THEN <<>> ELSE PreorderFrom(nodes[1], 1, depth)
PreorderFrom(nodes, i, depth) ==
  IF i > Len(nodes) THEN <<>>
  ELSE << [depth |-> depth, node |-> nodes[i]] >>
         \o Preorder(nodes[i].children, depth + 1)
         \o PreorderFrom(nodes, i + 1, depth)

\* depth, id and label of each entry
Outline(entries) ==
  [i \in 1..Len(entries) |->
     [depth |-> entries[i].depth, value |-> entries[i].node.value,
      label |-> entries[i].node.label]]

RECURSIVE UpToDepth(_, _)
UpToDepth(entries, maxDepth) ==
  IF entries = <<>> THEN <<>>
  ELSE (IF Head(entries).depth <= maxDepth THEN << Head(entries) >> ELSE <<>>)
         \o UpToDepth(Tail(entries), maxDepth)

\* C18: depth projection content: trimTreeToDepth(forest, maxDepth) with
\* maxDepth >= 1 returns a forest with exactly the nodes of the input whose
\* depth (roots at depth 1) is at most maxDepth, in the same order, at the
\* same depth and with the same id and label.
C18_TrimContent ==
  (input.fn = "trimTreeToDepth" /\ input.maxDepth >= 1) =>
    /\ output # Null
    /\ Outline(Preorder(output, 1)) =
         Outline(UpToDepth(Preorder(regionsTreeCache, 1), input.maxDepth))

\* a projection that omits nodes and keeps more than the roots
C18_Witness ==
  /\ input.fn = "trimTreeToDepth"
  /\ input.maxDepth >= 2
  /\ Len(Preorder(output, 1)) < Len(Preorder(regionsTreeCache, 1))
  /\ \E i \in 1..Len(Preorder(output, 1)) : Preorder(output, 1)[i].depth = 2

\* C19: truncation marker: in the output of trimTreeToDepth a node has
\* children = null exactly when its depth is maxDepth; a leaf above the
\* boundary is not emitted with children = null.
C19_TruncationMarker ==
  (input.fn = "trimTreeToDepth" /\ input.maxDepth >= 1) =>
    \A i \in 1..Len(Preorder(output, 1)) :
      LET e == Preorder(output, 1)[i] IN
      (e.node.children = Null) <=> (e.depth = input.maxDepth)

\* the rows of a list whose region id lies in a set, in order
Keep(rows, ids) == SelectSeq(rows, LAMBDA r : r.regionId \in ids)

\* the ids a filter list lets through: the closure of each of its ids
Closure(filterRegions) ==
  UNION {getDescendantRegionIds(regionsTreeCache, filterRegions[i]) :
           i \in 1..Len(filterRegions)}

\* C15 as stated: whenever filterIds is given, the surviving rows are
\* exactly the raw rows whose regionId lies in the union of
\* getDescendantRegionIds(id) over the ids of filterIds; without a filter
\* every raw row survives.
C15_FilterGiven ==
  input.fn = "regions" =>
    IF input.filterRegions # Null
      THEN output.filteredData = Keep(input.rows, Closure(input.filterRegions[1]))
      ELSE output.filteredData = input.rows

\* C15 as amended: when filterIds is given and not empty, the surviving
\* rows are exactly the raw rows whose regionId lies in the union of
\* getDescendantRegionIds(id) over the ids of filterIds; when no filter or
\* an empty list is given every raw row survives.
C15_FilterNonEmpty ==
  input.fn = "regions" =>
    IF input.filterRegions # Null /\ input.filterRegions[1] # <<>>
      THEN output.filteredData = Keep(input.rows, Closure(input.filterRegions[1]))
      ELSE output.filteredData = input.rows

\* tree 1 -> [2 -> [3], 4], rows for 2, 3 and 4, filter [2]: 2 and 3 are kept
C15_Witness ==
  /\ input.fn = "regions"
  /\ regionsTreeCache = Some(TreeA)
  /\ input.rows = RowsScoped
  /\ input.filterRegions = Some(<< 2 >>)
  /\ {output.filteredData[i].regionId : i \in 1..Len(output.filteredData)} = {2, 3}

\* a row without its regionName
Raw(r) == [regionId |-> r.regionId, count |-> r.count, share |-> r.share,
           affinityIndex |-> r.affinityIndex]

\* the place of row i of a list in the stable descending order by key: behind
\* the rows with a larger key and the earlier rows with an equal key
Place(rows, i, key) ==
  1 + Cardinality({j \in 1..Len(rows) :
                     \/ rows[j][key] > rows[i][key]
                     \/ rows[j][key] = rows[i][key] /\ j < i})

\* list `top` is the first n rows of `rows` in that order (n capped by the length)
IsTopBy(top, rows, key, n) ==
  /\ Len(top) = (IF n < Len(rows) THEN n ELSE Len(rows))
  /\ \A i \in 1..Len(rows) :
       Place(rows, i, key) <= n => Raw(top[Place(rows, i, key)]) = rows[i]

\* C16: ranked is the filtered rows sorted in descending order of count
\* and truncated to limit; rows with equal count keep their order from the
\* raw response, and every omitted row has a count no greater than every
\* included row.
C16_RankedByCount ==
  input.fn = "regions" =>
    /\ IsTopBy(output.regions, output.filteredData, "count", input.limit)
    /\ \A i \in 1..Len(output.filteredData) :
         Place(output.filteredData, i, "count") > input.limit =>
           \A k \in 1..Len(output.regions) :
             output.filteredData[i].count <= output.regions[k].count

\* the spec's example: counts 5, 50, 50 with limit 2 give ids 2, 3
C16_Witness ==
  /\ input.fn = "regions"
  /\ input.rows = RowsRanking
  /\ input.filterRegions = Null
  /\ input.limit = 2
  /\ Len(output.regions) = 2
  /\ output.regions[1].regionId = 2
  /\ output.regions[2].regionId = 3

\* C17: topByAffinity is the filtered rows, not the truncated ranked list,
\* sorted descending by affinityIndex and truncated to 5, whatever limit is.
C17_TopByAffinity ==
  input.fn = "regions" =>
    IsTopBy(output.topByAffinity, output.filteredData, "affinityIndex",
            TopByAffinityCount)

\* topByAffinity holds five rows, one of them absent from ranked
C17_Witness ==
  /\ input.fn = "regions"
  /\ Len(output.topByAffinity) = TopByAffinityCount
  /\ Len(output.filteredData) > TopByAffinityCount
  /\ \E i \in 1..Len(output.topByAffinity) :
       \A k \in 1..Len(output.regions) :
         output.regions[k].regionId # output.topByAffinity[i].regionId

\* the rows of a list whose regionId the flat index does not hold
Unresolved(rows) ==
  {i \in 1..Len(rows) : rows[i].regionId \notin DOMAIN regionsFlatCache[1]}

\* C20: a row whose regionId is absent from the flat index is not removed
\* because of that: without a filter it is among the filtered rows, and it
\* is in ranked and in topByAffinity when its place is within the
\* truncation; wherever it appears its regionName is a placeholder that
\* embeds the raw id.
C20_UnresolvedKept ==
  input.fn = "regions" =>
    LET F == output.filteredData IN
    /\ ~HasLength(input.filterRegions) =>
         \A i \in Unresolved(input.rows) : \E j \in 1..Len(F) : F[j] = input.rows[i]
    /\ \A i \in Unresolved(F) :
         /\ Place(F, i, "count") <= input.limit =>
              Raw(output.regions[Place(F, i, "count")]) = F[i]
         /\ Place(F, i, "affinityIndex") <= TopByAffinityCount =>
              Raw(output.topByAffinity[Place(F, i, "affinityIndex")]) = F[i]
    /\ \A i \in Unresolved(output.regions) :
         /\ output.regions[i].regionName[1] = "Unknown ("
         /\ output.regions[i].regionName[2] = output.regions[i].regionId
    /\ \A i \in Unresolved(output.topByAffinity) :
         /\ output.topByAffinity[i].regionName[1] = "Unknown ("
         /\ output.topByAffinity[i].regionName[2] = output.topByAffinity[i].regionId

\* the row for region 999 is in both lists under its placeholder
C20_Witness ==
  /\ input.fn = "regions"
  /\ \E i \in 1..Len(output.regions) :
       /\ output.regions[i].regionId = 999
       /\ output.regions[i].regionName = << "Unknown (", 999, ")" >>
  /\ \E i \in 1..Len(output.topByAffinity) :
       /\ output.topByAffinity[i].regionId = 999
       /\ output.topByAffinity[i].regionName = << "Unknown (", 999, ")" >>

\* the ids of a filter list that the cached tree does not hold
Unmapped(filterRegions) ==
  {filterRegions[i] : i \in 1..Len(filterRegions)} \ IdsIn(regionsTreeCache[1])

\* C21: permissive lookup miss: for an id that is not in the tree
\* getDescendantRegionIds(id) is the set {id} alone, and the regions handler
\* given a filter with such an id still yields its result and keeps the raw
\* rows whose regionId equals that id.
C21_PermissiveMiss ==
  /\ (input.fn = "getDescendantRegionIds"
        /\ input.regionId \notin IdsIn(regionsTreeCache[1])) =>
       output = {input.regionId}
  /\ (input.fn = "regions" /\ HasLength(input.filterRegions)) =>
       \A id \in Unmapped(input.filterRegions[1]) :
         /\ Keep(output.filteredData, {id}) = Keep(input.rows, {id})
         /\ \A i \in 1..Len(input.rows) :
              (input.rows[i].regionId = id /\ Len(output.filteredData) <= input.limit) =>
                \E k \in 1..Len(output.regions) : Raw(output.regions[k]) = input.rows[i]

\* a filter naming region 999, which no tree holds, kept the row of region 999
C21_Witness ==
  /\ input.fn = "regions"
  /\ input.filterRegions = Some(<< 999 >>)
  /\ input.rows = RowsUnknown
  /\ Len(output.filteredData) = 1
  /\ output.filteredData[1].regionId = 999
  /\ Len(output.regions) = 1

\* the position above a position that is not a root's
Up(path) == SubSeq(path, 1, Len(path) - 1)

\* C22: no partial success. A tool call whose awaited request fails (the
\* data request or the tree fetch of the regions tool, the tree fetch of
\* get-regions-tree and get-region-children) fails as a whole, with the
\* error of the first request that failed, and a call that returns a result
\* has had every awaited request succeed: no ranked list, no tree and no
\* children are returned next to a failure.
C22_NoPartialSuccess ==
  [][ /\ (\E k \in DOMAIN input'.awaited : input'.awaited[k] = "err")
           => output'.state = "err"
      /\ output'.state = "ok"
           => \A k \in DOMAIN input'.awaited : input'.awaited[k] = "ok"
      /\ \A k \in DOMAIN input.awaited :
           (input.awaited[k] = "pending" /\ input'.awaited[k] = "err")
             => IF \E j \in DOMAIN input.awaited : input.awaited[j] = "err"
                  THEN output'.value = output.value
                  ELSE ret'.kind = k /\ output'.value = ret'.value
    ]_vars

\* the tree fetch of a regions call failed while its data request was still
\* pending, and the call has failed
C22_Witness ==
  /\ input.fn = "regions"
  /\ input.awaited["tree"] = "err"
  /\ input.awaited["data"] = "pending"
  /\ ret.kind = "tree"
  /\ output.state = "err"

\* C23: flat index construction: the index built from a fetched forest
\* holds exactly one entry per node, keyed by the node's numeric id, with
\* the node's label and the id of its parent, and parentId = null exactly
\* for the roots.
C23_FlatIndex ==
  input.fn = "flattenRegionsTree" =>
    LET paths == PathsOf(input.nodes, <<>>) IN
    /\ DOMAIN output = IdsIn(input.nodes)
    /\ Cardinality(DOMAIN output) = Cardinality(paths)
    /\ \A p \in paths :
         /\ output[IdAt(input.nodes, p)].label = NodeAt(input.nodes, p).label
         /\ Len(p) = 1 <=> output[IdAt(input.nodes, p)].parentId = Null
         /\ Len(p) > 1 =>
              output[IdAt(input.nodes, p)].parentId = Some(IdAt(input.nodes, Up(p)))

\* the index of the chain 1 -> 2 -> 3 -> 4 with a second root 5
C23_Witness ==
  /\ input.fn = "flattenRegionsTree"
  /\ input.nodes = TreeChain
  /\ output[4] = [label |-> "Arbat", parentId |-> Some(3)]
  /\ output[5].parentId = Null

\* the places in a preorder list of the nodes with a given id
Hits(entries, id) == {k \in 1..Len(entries) : Number(entries[k].node.value) = id}
First(places) == CHOOSE k \in places : \A j \in places : k <= j

\* C24: findRegionInTree(forest, id) returns a node if and only if some
\* node of the forest has that id; the node returned is the first such node
\* in depth-first pre-order and has the id asked for; otherwise the result
\* is null.
C24_FindFirst ==
  input.fn = "findRegionInTree" =>
    LET entries == Preorder(Some(input.nodes), 1)
        hits == Hits(entries, input.regionId)
    IN /\ output # Null <=> hits # {}
       /\ hits # {} =>
            /\ output[1] = entries[First(hits)].node
            /\ Number(output[1].value) = input.regionId

\* of two nodes with id 2 the first in pre-order is found, below a root
C24_Witness ==
  /\ input.fn = "findRegionInTree"
  /\ input.nodes = TreeTwins
  /\ input.regionId = 2
  /\ output = Some(Leaf("2", "Center"))

\* C25: trimTreeToDepth(forest, maxDepth) with maxDepth < 1 yields an empty
\* result: no node of the input forest appears in the output.
C25_TrimBelowOne ==
  (input.fn = "trimTreeToDepth" /\ input.maxDepth < 1) =>
    Preorder(output, 1) = <<>>

\* depth 0 asked of a forest that has nodes
C25_Witness ==
  /\ input.fn = "trimTreeToDepth"
  /\ input.maxDepth = 0
  /\ regionsTreeCache[1] # <<>>
  /\ output = Null

\* the node of the cached tree with a given id
NodeOf(id) ==
  NodeAt(regionsTreeCache[1],
         CHOOSE p \in PathsOf(regionsTreeCache[1], <<>>) : IdAt(regionsTreeCache[1], p) = id)

\* C26: getRegionChildren(id, depth): when id is present in the cached tree
\* the result is the projection of that node's children to depth levels,
\* the direct children counted as depth 1; when id is absent the result is
\* the 'not found' outcome, which is not an error.
C26_RegionChildren ==
  input.fn = "getRegionChildren" =>
    IF input.regionId \in IdsIn(regionsTreeCache[1])
      THEN /\ output.found
           /\ Outline(Preorder(output.children, 1)) =
                Outline(UpToDepth(Preorder(NodeOf(input.regionId).children, 1),
                                  input.depth))
      ELSE /\ ~output.found
           /\ output.text = << "Region ", input.regionId, " not found" >>
           /\ output.children = Null

\* the children of a node without its grandchildren
C26_Witness ==
  /\ input.fn = "getRegionChildren"
  /\ input.depth = 1
  /\ output.found
  /\ Len(Preorder(output.children, 1)) >= 1
  /\ Len(Preorder(output.children, 1)) <
       Len(Preorder(NodeOf(input.regionId).children, 1))

C28_Terminates ==
  [][/\ \A i \in Started :
          flows'[i].pc = "wait" =>
            /\ flows'[i].deadline > now
            /\ flows'[i].deadline <= now + WindowMs
     /\ \A i \in Waiting :
          /\ flows[i].deadline <= now + WindowMs
          /\ now >= flows[i].deadline => ENABLED TimerFire(i)
     /\ \A i \in Released :
          /\ flows'[i].admCount = 1
          /\ flows'[i].netCount = 1
     /\ Len(flows') = Len(flows) =>
          \A i \in DOMAIN flows :
            /\ flows[i].pc = "inflight" => flows'[i].pc = "inflight"
            /\ flows'[i].pc = "wait" => flows'[i] = flows[i]
    ]_vars

\* a call that had suspended is in flight and nothing is suspended
C28_Witness ==
  /\ \E i \in DOMAIN flows : flows[i].suspended /\ flows[i].pc = "inflight"
  /\ Waiting = {}
  /\ Len(admitted) > RATE_LIMIT
  /\ calls = Len(admitted)

\* the queue entries whose timestamp lies within the 1000 ms that end now
QueuedInWindow ==
  {i \in DOMAIN requestTimestamps : requestTimestamps[i] > now - WindowMs}

\* C29: under any interleaving an entry still inside the trailing window is
\* never removed, so the queue holds every admission of the last 1000 ms.
C29_WindowKept == Cardinality(QueuedInWindow) = Cardinality(InWindow(now))

\* the index of a forest, entry by entry from the nodes' positions
IndexOf(nodes) ==
  [id \in IdsIn(nodes) |->
     LET p == CHOOSE q \in PathsOf(nodes, <<>>) : IdAt(nodes, q) = id IN
     [label |-> NodeAt(nodes, p).label,
      parentId |-> IF Len(p) = 1 THEN Null ELSE Some(IdAt(nodes, Up(p)))]]

\* C30: tree/index consistency: wherever control can pass to another caller
\* regionsTreeCache is non-null only if regionsFlatCache is the complete
\* index of exactly that tree, also when fetches race; and a step that
\* resolves getRegionsTree() for a handler leaves the caches so.
C30_TreeIndexConsistent ==
  /\ regionsTreeCache # Null =>
       /\ regionsFlatCache # Null
       /\ regionsFlatCache[1] = IndexOf(regionsTreeCache[1])
  /\ (ret.kind = "cached" \/ (ret.kind = "tree" /\ ret.state = "ok")) =>
       /\ regionsTreeCache # Null
       /\ regionsFlatCache # Null

\* a second fetch of a race has resolved with another tree than the first
C30_Witness ==
  /\ ret.kind = "tree" /\ ret.state = "ok"
  /\ treeFetched
  /\ regionsTreeCache = Some(TreeB)
  /\ 5 \in DOMAIN regionsFlatCache[1]
  /\ calls >= 2
  /\ Len(admitted) = 2
  /\ flows = <<>>

====
